---- MODULE Spec2Model ----
(***************************************************************************)
(* A model of the fessonia command builder and of its progress stream      *)
(* parser.                                                                 *)
(*                                                                         *)
(* Text handled character by character (the chunks of the progress         *)
(* stream) is a sequence of characters; a word such as "progress" stands   *)
(* for a run of characters that are neither white space, '=', a digit,     *)
(* '.', '-' nor '+'.  Tokens of a rendered command are plain strings.      *)
(***************************************************************************)
EXTENDS Integers, Sequences, FiniteSets, TLC

VARIABLES
  \* FFmpegProgressEmitter
  logBuffer,            \* this.logBuffer: sequence of [text, time]
  objects,              \* the data objects allocated so far, each key -> value
  progressData,         \* this.progressData: a reference into objects
  partialProgressData,  \* this.partialProgressData: a reference into objects
  updates,              \* the 'update' events emitted so far: [data, was], the
                        \* object handed to the listeners and what it held then
  fed,                  \* the chunks written to the stream so far
  \* the objects of the command builder
  chains,               \* every FilterChain: [nodes, filterGraph]
  graphs,               \* every FilterGraph: its chains, a sequence of chain ids
  inputLabel,           \* FFmpegInput.inputLabel of the inputs that have one
  outputs,              \* every FFmpegOutput: [options, streams]
  specifiers,           \* the FFmpegStreamSpecifier objects constructed
  options,              \* the FFmpegOption objects constructed on their own
  \* FFmpegCommand
  cmdInputs,            \* this._inputs
  cmdOutputs,           \* this._outputs
  cmdFilterGraph,       \* this._filterGraph: a graph id, 0 for undefined
  \* the record of the calls made
  lastCall,             \* the last call: [op, threw], threw the error or ""
  accepted              \* per output, the streams its valid addStreams calls gave

parserVars == <<logBuffer, objects, progressData, partialProgressData, updates, fed>>

builderVars == <<chains, graphs, inputLabel, outputs, specifiers, options,
                 cmdInputs, cmdOutputs, cmdFilterGraph, lastCall, accepted>>

----------------------------------------------------------------------------
(* Bounds *)

\* the number of chunks written to the progress stream
MaxChunks == 3

----------------------------------------------------------------------------
(* Characters and JavaScript values *)

Digits == {"0", "1", "2", "3", "4", "5", "6", "7", "8", "9"}

\* the characters \s matches
WhiteSpace == {" ", "\n", "\r", "\t"}

DigitVal(c) ==
  CASE c = "0" -> 0 [] c = "1" -> 1 [] c = "2" -> 2 [] c = "3" -> 3
    [] c = "4" -> 4 [] c = "5" -> 5 [] c = "6" -> 6 [] c = "7" -> 7
    [] c = "8" -> 8 [] c = "9" -> 9

RECURSIVE NatOf(_)
\* the value of a run of decimal digits
NatOf(ds) ==
  IF ds = <<>> THEN 0
  ELSE 10 * NatOf(SubSeq(ds, 1, Len(ds) - 1)) + DigitVal(ds[Len(ds)])

RECURSIVE Pow10(_)
Pow10(n) == IF n = 0 THEN 1 ELSE 10 * Pow10(n - 1)

\* A JavaScript number is kept in units of 10^-5: 5 is 500000 and 5 / 1000 is
\* 500.  NaN is a value of its own.
Num(m) == [t |-> "num", v |-> m]
Str(s) == [t |-> "str", v |-> s]
NaN == [t |-> "nan", v |-> 0]

\* the number a run "ddd" or "ddd.ddd" denotes, in units of 10^-5
DecimalValue(s) ==
  LET dots == {i \in 1..Len(s) : s[i] = "."}
  IN IF dots = {} THEN NatOf(s) * Pow10(5)
     ELSE LET d == CHOOSE i \in dots : TRUE
              frac == SubSeq(s, d + 1, Len(s))
          IN NatOf(SubSeq(s, 1, d - 1)) * Pow10(5)
             + (IF Len(frac) <= 5 THEN NatOf(frac) * Pow10(5 - Len(frac))
                ELSE NatOf(SubSeq(frac, 1, 5)))

\* /^\-?\d+(?:\.\d+)?$/
numRegExp(s) ==
  LET body == IF s # <<>> /\ s[1] = "-" THEN SubSeq(s, 2, Len(s)) ELSE s
      dots == {i \in 1..Len(body) : body[i] = "."}
  IN /\ body # <<>>
     /\ \A i \in 1..Len(body) : body[i] \in Digits \cup {"."}
     /\ Cardinality(dots) <= 1
     /\ body[1] # "."
     /\ body[Len(body)] # "."

\* parseFloat of a string numRegExp accepts
parseFloat(s) ==
  IF s[1] = "-" THEN Num(0 - DecimalValue(SubSeq(s, 2, Len(s))))
  ELSE Num(DecimalValue(s))

\* String.prototype.trim
RECURSIVE trim(_)
trim(s) ==
  IF s = <<>> THEN s
  ELSE IF s[1] \in WhiteSpace THEN trim(SubSeq(s, 2, Len(s)))
  ELSE IF s[Len(s)] \in WhiteSpace THEN trim(SubSeq(s, 1, Len(s) - 1))
  ELSE s

\* the positions of `c` in s
Positions(s, c) == {i \in 1..Len(s) : s[i] = c}

Min(S) == CHOOSE x \in S : \A y \in S : x <= y

\* String.prototype.split(sep) for a one-character separator
RECURSIVE split(_, _)
split(s, sep) ==
  IF Positions(s, sep) = {} THEN <<s>>
  ELSE LET p == Min(Positions(s, sep))
       IN <<SubSeq(s, 1, p - 1)>> \o split(SubSeq(s, p + 1, Len(s)), sep)

\* ToNumber of a string: the numeric literals over digits, '.', '+' and '-'
\* convert, a string of white space is 0, anything else is NaN
StringToNumber(s) ==
  LET r == trim(s)
      signed == r # <<>> /\ r[1] \in {"-", "+"}
      body == IF signed THEN SubSeq(r, 2, Len(r)) ELSE r
      dots == {i \in 1..Len(body) : body[i] = "."}
      ok == /\ body # <<>>
            /\ \A i \in 1..Len(body) : body[i] \in Digits \cup {"."}
            /\ Cardinality(dots) <= 1
            /\ body # <<".">>
      m == DecimalValue(body)
  IN IF r = <<>> THEN Num(0)
     ELSE IF ~ok THEN NaN
     ELSE IF signed /\ r[1] = "-" THEN Num(0 - m) ELSE Num(m)

\* the truthiness of a value, or of undefined, in an && chain
Truthy(x) ==
  CASE x.t = "num" -> x.v # 0
    [] x.t = "str" -> x.v # <<>>
    [] OTHER -> FALSE

\* x === y of two defined values
StrictEquals(x, y) == x.t # "nan" /\ x = y

\* x / 1000 for a number or a string; a quotient that is no whole number of
\* units is cut to one
DivideBy1000(x) ==
  LET n == IF x.t = "str" THEN StringToNumber(x.v) ELSE x
  IN IF n.t = "nan" THEN NaN
     ELSE IF n.v >= 0 THEN Num(n.v \div 1000)
     ELSE Num(0 - ((0 - n.v) \div 1000))

----------------------------------------------------------------------------
(* FFmpegProgressEmitter *)

EmptyObject == [k \in {} |-> Str(<<>>)]

\* obj[key] = value
SetKey(obj, key, value) ==
  [k \in DOMAIN obj \cup {key} |-> IF k = key THEN value ELSE obj[k]]

\* only a chunk that is a lone carriage return
IsCarriageReturnOnly(chunk) == chunk = <<"\r">>

\* /\r$/
EndsInCarriageReturn(chunk) == chunk # <<>> /\ chunk[Len(chunk)] = "\r"

\* /^[^\s=]+=[^=]+\n$/
MatchesKeyValue(chunk) ==
  LET n == Len(chunk)
      eqs == Positions(chunk, "=")
  IN /\ Cardinality(eqs) = 1
     /\ LET p == Min(eqs)
        IN /\ p >= 2
           /\ \A i \in 1..(p - 1) : chunk[i] \notin WhiteSpace
           /\ p <= n - 2
     /\ chunk[n] = "\n"

\* the out_time of the record still being received
lastMediaTimeOfPending(data) ==
  IF <<"out_time">> \in DOMAIN objects[partialProgressData]
  THEN objects[partialProgressData][<<"out_time">>]
  ELSE Str(<<"0">>)

lastMediaTime(data) ==
  IF <<"out_time">> \in DOMAIN data THEN data[<<"out_time">>] ELSE Str(<<"0">>)

\* a value an accessor returns: an array of texts, or one text on its own
ArrayOf(texts) == [isArray |-> TRUE, items |-> texts]
Single(text) == [isArray |-> FALSE, items |-> <<text>>]

\* FFmpegProgressEmitter.logData
logData == ArrayOf([k \in 1..Len(logBuffer) |-> logBuffer[k].text])

Max(a, b) == IF a >= b THEN a ELSE b

\* Array.prototype.slice(start) for 0 <= start
slice(array, start) ==
  ArrayOf(SubSeq(array.items, start + 1, Len(array.items)))

\* FFmpegProgressEmitter.last, and FFmpegCommand.logLines that forwards to it
last(n) ==
  IF Len(logBuffer) = 0 THEN logData
  ELSE slice(logData, Max(Len(logBuffer) - n, 0))

\* the fix-up of _emitUpdateEvent applied to partialProgressData
FixedUp(partial) ==
  LET ms == <<"out_time_ms">>
      us == <<"out_time_us">>
  IN IF /\ ms \in DOMAIN partial
        /\ us \in DOMAIN partial
        /\ Truthy(partial[ms])
        /\ Truthy(partial[us])
        /\ StrictEquals(partial[ms], partial[us])
     THEN SetKey(partial, ms, DivideBy1000(partial[us]))
     ELSE partial

\* progressData merged with the pending fields instead of replaced by them
_emitUpdateEventMerging ==
  LET fixed == [objects EXCEPT ![partialProgressData] = FixedUp(@)]
      pending == fixed[partialProgressData]
      merged == [k \in DOMAIN objects[progressData] \cup DOMAIN pending |->
                   IF k \in DOMAIN pending THEN pending[k] ELSE objects[progressData][k]]
      copied == Append(fixed, merged)
  IN /\ objects' = Append(copied, EmptyObject)
     /\ progressData' = Len(copied)
     /\ partialProgressData' = Len(copied) + 1
     /\ updates' = Append(updates, [data |-> Len(copied), was |-> merged])
     /\ UNCHANGED logBuffer

\* the pending object itself handed out, and kept as the pending object
_emitUpdateEventSharingPending ==
  LET fixed == [objects EXCEPT ![partialProgressData] = FixedUp(@)]
  IN /\ objects' = fixed
     /\ progressData' = partialProgressData
     /\ updates' = Append(updates, [data |-> partialProgressData,
                                    was |-> fixed[partialProgressData]])
     /\ UNCHANGED <<partialProgressData, logBuffer>>

\* The fix-up is written into the pending object, progressData becomes a new
\* object holding a copy of it, partialProgressData a new empty object, and
\* the listeners are handed the object progressData now refers to.
_emitUpdateEvent ==
  LET fixed == [objects EXCEPT ![partialProgressData] = FixedUp(@)]
      copied == Append(fixed, fixed[partialProgressData])
  IN /\ objects' = Append(copied, EmptyObject)
     /\ progressData' = Len(copied)
     /\ partialProgressData' = Len(copied) + 1
     /\ updates' = Append(updates, [data |-> Len(copied), was |-> copied[Len(copied)]])
     /\ UNCHANGED logBuffer

\* the value _parseProgress stores for the text after the '='
ParsedValue(raw) ==
  LET v == trim(raw) IN IF numRegExp(v) THEN parseFloat(v) ELSE Str(v)

_parseProgress(p) ==
  LET parts == split(p, "=")
      progressKey == parts[1]
      progressValue == parts[2]
  IN IF progressKey = <<"progress">>
     THEN _emitUpdateEvent
     ELSE /\ objects' = [objects EXCEPT ![partialProgressData] =
                           SetKey(@, progressKey, ParsedValue(progressValue))]
          /\ UNCHANGED <<progressData, partialProgressData, updates, logBuffer>>

_write(chunk) ==
  /\ Len(fed) < MaxChunks
  /\ fed' = Append(fed, chunk)
  /\ IF EndsInCarriageReturn(chunk)
     THEN UNCHANGED <<logBuffer, objects, progressData, partialProgressData, updates>>
     ELSE IF MatchesKeyValue(chunk)
     THEN _parseProgress(trim(chunk))
     ELSE /\ logBuffer' = Append(logBuffer,
                 [text |-> chunk, time |-> lastMediaTime(objects[progressData])])
          /\ UNCHANGED <<objects, progressData, partialProgressData, updates>>

\* the chunks a run of the external tool may deliver
Chunks ==
  { <<"progress", "=", "continue", "\n">>,
    <<"progress", "=", "end", "\r", "\n">>,
    <<"progress", "=", "end", "\r">>,
    <<"frame", "=", "1", "\n">>,
    <<"frame", "=", " ", "2", "\n">>,
    <<"out_time", "=", "0", "0", ":", "0", "1", "\n">>,
    <<"out_time_ms", "=", "5", "0", "0", "0", "\n">>,
    <<"out_time_us", "=", "5", "0", "0", "0", "\n">>,
    <<"out_time_us", "=", "7", "0", "0", "0", "\n">>,
    <<"out_time_ms", "=", "N", "/", "A", "\n">>,
    <<"out_time_us", "=", "N", "/", "A", "\n">>,
    <<"speed", "=", "1", ".", "5", "x", "\n">>,
    <<"Press", " ", "q", "\n">>,
    <<"frame", "=", "1", " ", "fps", "=", "2", "\r">>,
    <<"frame", "=", "1", "\n", "progress", "=", "continue", "\n">>,
    <<"Press", " ", "q", "\n", "progress", "=", "end", "\n">>,
    <<"progress", "=", "continue", "\n", "Press", " ", "q", "\n">>,
    <<"frame", "=", "1", "\n", "fps", "=", "2", "\n">>,
    <<"out_time_ms", "=", "0", "\n">>,
    <<"out_time_us", "=", "0", "\n">>,
    <<"bitrate", "=", "\n">> }


----------------------------------------------------------------------------
(* JavaScript values handed to the builder *)

\* a value: its kind (typeof / class), the id of the object it refers to and
\* the text its toString gives where that text does not depend on the state
Val(kind, id, text) == [kind |-> kind, id |-> id, text |-> text]

Null == Val("null", 0, "")
Undefined == Val("undefined", 0, "")
\* {a: 1}: a plain object, a key-value map with Object.prototype.toString
PlainObject == Val("Object", 0, "[object Object]")
\* Object.create(null): an object with no toString
BareObject == Val("NoToString", 0, "")
ArrayValue == Val("Array", 0, "a,b")
MapValue == Val("Map", 0, "[object Map]")

RECURSIVE Join(_, _)
\* Array.prototype.join
Join(strs, sep) ==
  IF strs = <<>> THEN ""
  ELSE IF Len(strs) = 1 THEN strs[1]
  ELSE strs[1] \o sep \o Join(Tail(strs), sep)

RECURSIVE Flatten(_)
\* the concatenation of a sequence of sequences
Flatten(ss) == IF ss = <<>> THEN <<>> ELSE ss[1] \o Flatten(Tail(ss))

\* the result of a call that may throw
Ok(x) == [ok |-> TRUE, v |-> x]
Throws(message) == [ok |-> FALSE, v |-> message]

----------------------------------------------------------------------------
(* FilterNode, FilterChain, FilterGraph *)

\* the filter nodes used: a parameter is positional when its key is empty
Nodes ==
  << [name |-> "scale", params |-> <<[k |-> "", v |-> "640"], [k |-> "", v |-> "-1"]>>],
     [name |-> "sine", params |-> <<[k |-> "frequency", v |-> "620"]>>] >>

\* FilterNode.toString
NodeToString(node) ==
  LET ps == [i \in 1..Len(node.params) |->
               IF node.params[i].k = "" THEN node.params[i].v
               ELSE node.params[i].k \o "=" \o node.params[i].v]
  IN IF ps = <<>> THEN node.name ELSE node.name \o "=" \o Join(ps, ":")

\* FilterChain.toString
ChainToString(c) ==
  Join([i \in 1..Len(chains[c].nodes) |-> NodeToString(chains[c].nodes[i])], ",")

\* FilterGraph.toString
GraphToString(g) ==
  Join([i \in 1..Len(graphs[g]) |-> ChainToString(graphs[g][i])], ";")

\* FilterGraph.chainPosition: findIndex, -1 when the chain is not in the graph
chainPosition(g, c) ==
  LET at == {i \in 1..Len(graphs[g]) : graphs[g][i] = c}
  IN IF at = {} THEN -1 ELSE Min(at) - 1

\* the heaps after FilterGraph.addFilterChain(chain) on graph g succeeded
GraphsAfterAdd(gs, g, c) == [gs EXCEPT ![g] = Append(@, c)]

ChainsAfterAdd(cs, g, c) == [cs EXCEPT ![c].filterGraph = g]

\* chain instanceof FilterChain
IsFilterChain(x) == x.kind = "FilterChain"

\* FilterGraph.addFilterChain on graph g of the heap gs: [threw, gs, cs]
GraphAddFilterChain(gs, cs, g, x) ==
  IF ~IsFilterChain(x)
  THEN [threw |-> "Invalid parameter chain", gs |-> gs, cs |-> cs]
  ELSE [threw |-> "", gs |-> GraphsAfterAdd(gs, g, x.id),
        cs |-> ChainsAfterAdd(cs, g, x.id)]

\* FilterChain.wrap: a chain is returned as it is, a node becomes the only node
\* of a new chain; [the chain, chains]
FilterChainWrap(cs, x) ==
  IF x.kind = "FilterChain" THEN [val |-> x, cs |-> cs]
  ELSE [val |-> Val("FilterChain", Len(cs) + 1, ""),
        cs |-> Append(cs, [nodes |-> <<Nodes[x.id]>>, filterGraph |-> 0])]

\* FilterGraph.wrap: [threw, the value returned, graphs, chains]
wrap(gs, cs, x) ==
  IF x.kind = "FilterGraph" THEN [threw |-> "", val |-> x, gs |-> gs, cs |-> cs]
  ELSE IF x.kind \in {"FilterChain", "FilterNode"}
  THEN LET w == FilterChainWrap(cs, x)
           fg == Len(gs) + 1
           r == GraphAddFilterChain(Append(gs, <<>>), w.cs, fg, w.val)
       IN [threw |-> r.threw, val |-> Val("FilterGraph", fg, ""),
           gs |-> r.gs, cs |-> r.cs]
  ELSE [threw |-> "", val |-> x, gs |-> gs, cs |-> cs]

----------------------------------------------------------------------------
(* FFmpegOption *)

FILTER_OPTIONS_WithoutAf ==
  <<"filter", "filter:v", "vf", "filter:a", "filter_complex", "lavfi">>

FILTER_OPTIONS ==
  <<"filter", "filter:v", "vf", "filter:a", "af", "filter_complex", "lavfi">>

\* Array.prototype.includes
Includes(seq, x) == \E i \in 1..Len(seq) : seq[i] = x

\* FFmpegOption.validate: the error thrown, "" when it returns true
validate(name, arg) ==
  IF arg.kind # "string" /\ arg.kind # "null"
  THEN IF arg.kind \in {"Map", "Array"}
       THEN "InvalidArgument: arg must be a string value or null, or must be a single-value type and have a toString method"
       ELSE IF arg.kind = "NoToString"
       THEN "InvalidArgument: arg must be a string value or null, or must have a toString method"
       ELSE ""
  ELSE ""

\* new FFmpegOption(name, arg): [threw, opt, gs, cs]; the default parameter
\* value turns an undefined arg into null
NewFFmpegOption(gs, cs, name, arg0) ==
  LET arg == IF arg0.kind = "undefined" THEN Null ELSE arg0
      err == validate(name, arg)
      alias == Includes(FILTER_OPTIONS, name)
      w == IF alias THEN wrap(gs, cs, arg)
           ELSE [threw |-> "", val |-> arg, gs |-> gs, cs |-> cs]
      stored == IF alias /\ w.val.kind = "FilterGraph" THEN "filter_complex" ELSE name
  IN IF err # ""
     THEN [threw |-> err, opt |-> Null, gs |-> gs, cs |-> cs]
     ELSE IF w.threw # ""
     THEN [threw |-> w.threw, opt |-> Null, gs |-> w.gs, cs |-> w.cs]
     ELSE [threw |-> "",
           opt |-> [name |-> stored, optionName |-> "-" \o stored, arg |-> arg,
                    given |-> name],
           gs |-> w.gs, cs |-> w.cs]

\* arg.toString()
ArgToString(arg) ==
  CASE arg.kind = "FilterNode" -> NodeToString(Nodes[arg.id])
    [] arg.kind = "FilterChain" -> ChainToString(arg.id)
    [] arg.kind = "FilterGraph" -> GraphToString(arg.id)
    [] OTHER -> arg.text

\* FFmpegOption.toCommandArray
OptionToCommandArray(opt) ==
  IF opt.arg.kind = "null" THEN <<opt.optionName>>
  ELSE <<opt.optionName, ArgToString(opt.arg)>>

----------------------------------------------------------------------------
(* FFmpegInput, FilterChain pads, FFmpegStreamSpecifier *)

InputIds == {1, 2}

InputUrl(i) == IF i = 1 THEN "/some/file1.mov" ELSE "/some/file2.mov"

\* the options an input was constructed with
InputOptions(i) ==
  IF i = 1
  THEN <<[name |-> "threads", optionName |-> "-threads",
          arg |-> Val("string", 0, "8"), given |-> "threads"]>>
  ELSE <<[name |-> "re", optionName |-> "-re", arg |-> Null, given |-> "re"]>>

\* FFmpegInput.toCommandArray: the options' tokens, then -i and the url
InputToCommandArray(i) ==
  Flatten([k \in 1..Len(InputOptions(i)) |-> OptionToCommandArray(InputOptions(i)[k])])
    \o <<"-i", InputUrl(i)>>

\* `${input.inputLabel}`
LabelText(i) ==
  IF i \in DOMAIN inputLabel THEN ToString(inputLabel[i]) ELSE "undefined"

\* the output pads a chain has: one, numbered 0
PadExists(c, specifier) == specifier = "0"

\* FilterChain.getOutputPad: the pad's name is made of the chain's position in
\* its graph; no pad without a graph, or for a pad the chain does not have
getOutputPad(c, specifier) ==
  IF chains[c].filterGraph = 0
  THEN Throws("chain is not in a filter graph")
  ELSE IF ~PadExists(c, specifier)
  THEN Throws("no such output pad")
  ELSE Ok("chain" \o ToString(chainPosition(chains[c].filterGraph, c)) \o "_"
          \o chains[c].nodes[Len(chains[c].nodes)].name \o "_" \o specifier)

\* entity.type: the classes that set a type tag
TypeTag(entity) ==
  IF entity.kind \in {"FFmpegInput", "FilterChain", "FFmpegOutput", "FilterGraph",
                      "FFmpegOption"}
  THEN entity.kind
  ELSE "undefined"

\* the fields the constructor sets
SpecifierObject(entity, specifier) ==
  [kind |-> "FFmpegStreamSpecifier", entity |-> entity, specifier |-> specifier,
   entityType |-> TypeTag(entity)]

\* FFmpegStreamSpecifier.toString
SpecifierToString(sp) ==
  IF sp.entityType = "FFmpegInput"
  THEN Ok(LabelText(sp.entity.id) \o ":" \o sp.specifier)
  ELSE IF sp.entityType = "FilterChain"
  THEN LET pad == getOutputPad(sp.entity.id, sp.specifier)
       IN IF pad.ok THEN Ok("[" \o pad.v \o "]") ELSE pad
  ELSE Ok(sp.specifier)

\* the error the FFmpegStreamSpecifier constructor throws, "" when it returns
ConstructorThrows(entity, specifier) ==
  IF TypeTag(entity) = "undefined"
  THEN "Invalid entity type"
  ELSE IF ~SpecifierToString(SpecifierObject(entity, specifier)).ok
  THEN "Invalid specifier"
  ELSE ""

----------------------------------------------------------------------------
(* FFmpegOutput *)

OutputIds == {1, 2}

OutputUrl(o) == IF o = 1 THEN "gen.mov" ELSE "/dev/null"

\* a stream element that is a string, not a specifier
Junk ==
  [kind |-> "string", entity |-> Null, specifier |-> "junk", entityType |-> "undefined"]

\* a stream element that is null
NullElement ==
  [kind |-> "null", entity |-> Null, specifier |-> "", entityType |-> "undefined"]

\* `${s.toString()}` of an element of streams
ElementToString(s) ==
  IF s.kind = "null" THEN Throws("TypeError")
  ELSE IF s.kind = "FFmpegStreamSpecifier" THEN SpecifierToString(s)
  ELSE Ok(s.specifier)

\* FFmpegOutput.toCommandArray
OutputToCommandArray(o) ==
  LET out == outputs[o]
      opts == Flatten([k \in 1..Len(out.options) |-> OptionToCommandArray(out.options[k])])
      maps == [k \in 1..Len(out.streams) |-> ElementToString(out.streams[k])]
  IN IF \E k \in 1..Len(maps) : ~maps[k].ok
     THEN Throws("render")
     ELSE Ok(opts \o Flatten([k \in 1..Len(maps) |-> <<"-map", maps[k].v>>])
             \o <<OutputUrl(o)>>)

\* x instanceof FFmpegStreamSpecifier
InstanceOfStreamSpecifier(x) == x.kind = "FFmpegStreamSpecifier"

\* !i: a boolean
Not(i) ==
  [kind |-> "boolean", entity |-> Null, specifier |-> "", entityType |-> "undefined"]

\* FFmpegOutput.validateStreams: the error thrown, "" when it returns the list;
\* the test of an element is (!i instanceof FFmpegStreamSpecifier)
validateStreams(isArray, list) ==
  IF ~isArray THEN "Invalid argument"
  ELSE IF \E k \in 1..Len(list) : InstanceOfStreamSpecifier(Not(list[k]))
  THEN "Invalid inputs specified"
  ELSE ""

\* this.streams.concat(list)
StreamsAfterAdd(streams, list) == streams \o list

RECURSIVE ValidateOptionsFrom(_, _, _, _)
\* FFmpegOutput.validateOptions: an FFmpegOption for each entry, in order;
\* [threw, opts, gs, cs]
ValidateOptionsFrom(gs, cs, entries, done) ==
  IF entries = <<>> THEN [threw |-> "", opts |-> done, gs |-> gs, cs |-> cs]
  ELSE LET r == NewFFmpegOption(gs, cs, entries[1].name, entries[1].arg)
       IN IF r.threw # ""
          THEN [threw |-> r.threw, opts |-> <<>>, gs |-> r.gs, cs |-> r.cs]
          ELSE ValidateOptionsFrom(r.gs, r.cs, Tail(entries), Append(done, r.opt))

----------------------------------------------------------------------------
(* FFmpegCommand *)

\* the global options of the command: new Map([['y']])
GlobalOptions == <<[name |-> "y", value |-> Undefined]>>

\* the tokens of the global options
GlobalTokens ==
  Flatten([k \in 1..Len(GlobalOptions) |->
            IF GlobalOptions[k].value.kind \in {"null", "undefined"}
            THEN <<"-" \o GlobalOptions[k].name>>
            ELSE <<"-" \o GlobalOptions[k].name, GlobalOptions[k].value.text>>])

\* toCommand: the tokens for the filter graph
FilterTokens ==
  IF cmdFilterGraph # 0
  THEN <<"-filter_complex", GraphToString(cmdFilterGraph)>>
  ELSE <<>>

\* FFmpegCommand.toCommand().args
toCommandArgs ==
  LET outs == [k \in 1..Len(cmdOutputs) |-> OutputToCommandArray(cmdOutputs[k])]
  IN IF \E k \in 1..Len(outs) : ~outs[k].ok
     THEN Throws("render")
     ELSE Ok(GlobalTokens
             \o Flatten([k \in 1..Len(cmdInputs) |-> InputToCommandArray(cmdInputs[k])])
             \o FilterTokens
             \o Flatten([k \in 1..Len(outs) |-> outs[k].v]))

----------------------------------------------------------------------------
(* Bounds of the builder *)

\* the inputs registered into the command
MaxInputs == 3
\* the outputs registered into the command
MaxOutputs == 2
\* the chains of one graph
MaxChains == 2
\* the FilterGraph objects alive
MaxGraphs == 4
\* the streams of an output
MaxStreams == 3
\* the options of an output, and the options constructed on their own
MaxOptions == 2
\* the stream specifiers constructed
MaxSpecifiers == 2

----------------------------------------------------------------------------
(* The state after construction *)

ParserInit ==
  /\ logBuffer = <<>>
  /\ objects = <<EmptyObject, EmptyObject>>
  /\ progressData = 1
  /\ partialProgressData = 2
  /\ updates = <<>>
  /\ fed = <<>>

NoCall == [op |-> "none", threw |-> ""]

\* two chains not yet in a graph, two empty graphs, two inputs without a label,
\* two outputs without streams, a command with nothing registered
BuilderInit ==
  /\ chains = << [nodes |-> <<Nodes[1]>>, filterGraph |-> 0],
                 [nodes |-> <<Nodes[2], Nodes[1]>>, filterGraph |-> 0] >>
  /\ graphs = << <<>>, <<>> >>
  /\ inputLabel = [i \in {} |-> 0]
  /\ outputs = [o \in OutputIds |->
                 [options |-> IF o = 1 THEN <<>>
                              ELSE <<[name |-> "c:v", optionName |-> "-c:v",
                                      arg |-> Val("string", 0, "libx264"),
                                      given |-> "c:v"]>>,
                  streams |-> <<>>]]
  /\ specifiers = {}
  /\ options = <<>>
  /\ cmdInputs = <<>>
  /\ cmdOutputs = <<>>
  /\ cmdFilterGraph = 0
  /\ lastCall = NoCall
  /\ accepted = [o \in OutputIds |-> <<>>]

vars == <<logBuffer, objects, progressData, partialProgressData, updates, fed,
          chains, graphs, inputLabel, outputs, specifiers, options,
          cmdInputs, cmdOutputs, cmdFilterGraph, lastCall, accepted>>

Init == ParserInit /\ BuilderInit

----------------------------------------------------------------------------
(* The progress stream *)

Write == \E chunk \in Chunks : _write(chunk) /\ UNCHANGED builderVars

NextParser == Write

SpecParser == Init /\ [][NextParser]_vars

----------------------------------------------------------------------------
(* FFmpegCommand.addInput, addOutput, addFilterChain *)

\* the values handed where a filter chain is expected
ChainArguments ==
  {Val("FilterChain", c, "") : c \in 1..2} \cup {Val("string", 0, "scale=640:-1")}

addInput(i) ==
  /\ Len(cmdInputs) < MaxInputs
  /\ inputLabel' = [k \in DOMAIN inputLabel \cup {i} |->
                      IF k = i THEN Len(cmdInputs) ELSE inputLabel[k]]
  /\ cmdInputs' = Append(cmdInputs, i)
  /\ lastCall' = [op |-> "addInput", threw |-> ""]
  /\ UNCHANGED <<chains, graphs, outputs, specifiers, options, cmdOutputs,
                 cmdFilterGraph, accepted>>

addOutput(o) ==
  /\ Len(cmdOutputs) < MaxOutputs
  /\ cmdOutputs' = Append(cmdOutputs, o)
  /\ lastCall' = [op |-> "addOutput", threw |-> ""]
  /\ UNCHANGED <<chains, graphs, inputLabel, outputs, specifiers, options,
                 cmdInputs, cmdFilterGraph, accepted>>

\* FFmpegCommand.addFilterChain: the graph is created before the chain is looked at
addFilterChain(x) ==
  LET gs0 == IF cmdFilterGraph = 0 THEN Append(graphs, <<>>) ELSE graphs
      g == IF cmdFilterGraph = 0 THEN Len(graphs) + 1 ELSE cmdFilterGraph
      r == GraphAddFilterChain(gs0, chains, g, x)
  IN /\ Len(gs0[g]) < MaxChains
     /\ cmdFilterGraph' = g
     /\ graphs' = r.gs
     /\ chains' = r.cs
     /\ lastCall' = [op |-> "addFilterChain", threw |-> r.threw]
     /\ UNCHANGED <<inputLabel, outputs, specifiers, options, cmdInputs,
                    cmdOutputs, accepted>>

AddInput == \E i \in InputIds : addInput(i) /\ UNCHANGED parserVars

AddOutput == \E o \in OutputIds : addOutput(o) /\ UNCHANGED parserVars

AddFilterChain == \E x \in ChainArguments : addFilterChain(x) /\ UNCHANGED parserVars

NextCommand == AddInput \/ AddOutput \/ AddFilterChain

SpecCommand == Init /\ [][NextCommand]_vars

----------------------------------------------------------------------------
(* FilterGraph.addFilterChain on the graphs built by hand *)

graphAddFilterChain(g, x) ==
  LET r == GraphAddFilterChain(graphs, chains, g, x)
  IN /\ Len(graphs[g]) < MaxChains
     /\ graphs' = r.gs
     /\ chains' = r.cs
     /\ lastCall' = [op |-> "FilterGraph.addFilterChain", threw |-> r.threw]
     /\ UNCHANGED <<inputLabel, outputs, specifiers, options, cmdInputs,
                    cmdOutputs, cmdFilterGraph, accepted>>

GraphAdd ==
  \E g \in 1..Len(graphs) : \E x \in ChainArguments :
    graphAddFilterChain(g, x) /\ UNCHANGED parserVars

NextGraph == GraphAdd

SpecGraph == Init /\ [][NextGraph]_vars

----------------------------------------------------------------------------
(* new FFmpegOption(name, arg) *)

\* the names options are constructed with
OptionNames ==
  {"filter", "filter:v", "vf", "filter:a", "af", "filter_complex", "lavfi", "c:v", "f"}

OptionArguments ==
  { Null, Undefined, Val("string", 0, "libx264"), Val("number", 0, "8"),
    ArrayValue, MapValue, PlainObject, BareObject,
    Val("FilterNode", 1, ""), Val("FilterChain", 1, ""), Val("FilterGraph", 1, "") }

newFFmpegOption(name, arg) ==
  LET r == NewFFmpegOption(graphs, chains, name, arg)
  IN /\ Len(options) < MaxOptions
     /\ Len(graphs) < MaxGraphs
     /\ options' = IF r.threw = "" THEN Append(options, r.opt) ELSE options
     /\ graphs' = r.gs
     /\ chains' = r.cs
     /\ lastCall' = [op |-> "FFmpegOption", threw |-> r.threw]
     /\ UNCHANGED <<inputLabel, outputs, specifiers, cmdInputs, cmdOutputs,
                    cmdFilterGraph, accepted>>

NewOption ==
  \E name \in OptionNames : \E arg \in OptionArguments :
    newFFmpegOption(name, arg) /\ UNCHANGED parserVars

NextOption == NewOption

SpecOption == Init /\ [][NextOption]_vars

----------------------------------------------------------------------------
(* Stream specifiers and the streams and options of an output *)

\* the entities a stream specifier is constructed on
Entities ==
  { Val("FFmpegInput", 1, ""), Val("FFmpegInput", 2, ""),
    Val("FilterChain", 1, ""), Val("FilterChain", 2, ""),
    Val("FFmpegOutput", 2, ""), Val("FilterGraph", 1, ""), PlainObject }

\* the raw specifiers, after specifier.toString()
RawSpecifiers == {"0", "7"}

newFFmpegStreamSpecifier(entity, specifier) ==
  LET err == ConstructorThrows(entity, specifier)
  IN /\ Cardinality(specifiers) < MaxSpecifiers
     /\ specifiers' = IF err = "" THEN specifiers \cup {SpecifierObject(entity, specifier)}
                      ELSE specifiers
     /\ lastCall' = [op |-> "FFmpegStreamSpecifier", threw |-> err]
     /\ UNCHANGED <<chains, graphs, inputLabel, outputs, options, cmdInputs,
                    cmdOutputs, cmdFilterGraph, accepted>>

\* the elements handed to addStreams and addStream
StreamElements == specifiers \cup {Junk, NullElement}

\* the arguments of addStreams: a list of up to two elements, or a lone
\* specifier where the list is expected
StreamArguments ==
  {[isArray |-> TRUE, list |-> <<>>]}
    \cup {[isArray |-> TRUE, list |-> <<a>>] : a \in StreamElements}
    \cup {[isArray |-> TRUE, list |-> <<a, b>>] : a \in StreamElements, b \in StreamElements}
    \cup {[isArray |-> FALSE, list |-> <<a>>] : a \in specifiers}

\* what addStreams is documented to accept: a list of stream specifiers
ValidStreamArgument(x) ==
  x.isArray /\ \A k \in 1..Len(x.list) : x.list[k] \in specifiers

addStreams(o, x) ==
  LET err == validateStreams(x.isArray, x.list)
  IN /\ Len(outputs[o].streams) + Len(x.list) <= MaxStreams
     /\ outputs' = IF err = ""
                   THEN [outputs EXCEPT ![o].streams = StreamsAfterAdd(@, x.list)]
                   ELSE outputs
     /\ accepted' = IF ValidStreamArgument(x)
                    THEN [accepted EXCEPT ![o] = @ \o x.list]
                    ELSE accepted
     /\ lastCall' = [op |-> "addStreams", threw |-> err]
     /\ UNCHANGED <<chains, graphs, inputLabel, specifiers, options, cmdInputs,
                    cmdOutputs, cmdFilterGraph>>

\* addStream(s) is addStreams([s])
addStream(o, s) ==
  LET x == [isArray |-> TRUE, list |-> <<s>>]
      err == validateStreams(x.isArray, x.list)
  IN /\ Len(outputs[o].streams) + 1 <= MaxStreams
     /\ outputs' = IF err = ""
                   THEN [outputs EXCEPT ![o].streams = StreamsAfterAdd(@, x.list)]
                   ELSE outputs
     /\ accepted' = IF ValidStreamArgument(x)
                    THEN [accepted EXCEPT ![o] = @ \o x.list]
                    ELSE accepted
     /\ lastCall' = [op |-> "addStream", threw |-> err]
     /\ UNCHANGED <<chains, graphs, inputLabel, specifiers, options, cmdInputs,
                    cmdOutputs, cmdFilterGraph>>

\* the option maps handed to addOptions
OptionMaps ==
  { <<[name |-> "c:a", arg |-> Val("string", 0, "pcm_s24le")]>>,
    <<[name |-> "an", arg |-> Null]>>,
    <<[name |-> "r", arg |-> Val("number", 0, "23.976")],
      [name |-> "map_metadata", arg |-> ArrayValue]>> }

addOptions(o, entries) ==
  LET r == ValidateOptionsFrom(graphs, chains, entries, <<>>)
  IN /\ Len(outputs[o].options) + Len(entries) <= MaxOptions
     /\ outputs' = IF r.threw = ""
                   THEN [outputs EXCEPT ![o].options = @ \o r.opts]
                   ELSE outputs
     /\ graphs' = r.gs
     /\ chains' = r.cs
     /\ lastCall' = [op |-> "addOptions", threw |-> r.threw]
     /\ UNCHANGED <<inputLabel, specifiers, options, cmdInputs, cmdOutputs,
                    cmdFilterGraph, accepted>>

\* the output whose streams and options are built
BuiltOutput == {o \in OutputIds : o <= 1}

NewSpecifier ==
  \E entity \in Entities : \E specifier \in RawSpecifiers :
    newFFmpegStreamSpecifier(entity, specifier) /\ UNCHANGED parserVars

AddStreams ==
  \E o \in BuiltOutput : \E x \in StreamArguments :
    addStreams(o, x) /\ UNCHANGED parserVars

AddStream ==
  \E o \in BuiltOutput : \E s \in StreamElements :
    addStream(o, s) /\ UNCHANGED parserVars

AddOptions ==
  \E o \in BuiltOutput : \E entries \in OptionMaps :
    addOptions(o, entries) /\ UNCHANGED parserVars

NextOutput ==
  \/ NewSpecifier
  \/ AddStreams
  \/ AddStream
  \/ AddOptions

\* the state after addInput of both inputs and after the first chain was added
\* to the first graph
RegisteredInit ==
  /\ chains = << [nodes |-> <<Nodes[1]>>, filterGraph |-> 1],
                 [nodes |-> <<Nodes[2], Nodes[1]>>, filterGraph |-> 0] >>
  /\ graphs = << <<1>>, <<>> >>
  /\ inputLabel = [i \in InputIds |-> i - 1]
  /\ outputs = [o \in OutputIds |->
                 [options |-> IF o = 1 THEN <<>>
                              ELSE <<[name |-> "c:v", optionName |-> "-c:v",
                                      arg |-> Val("string", 0, "libx264"),
                                      given |-> "c:v"]>>,
                  streams |-> <<>>]]
  /\ specifiers = {}
  /\ options = <<>>
  /\ cmdInputs = <<1, 2>>
  /\ cmdOutputs = <<>>
  /\ cmdFilterGraph = 0
  /\ lastCall = [op |-> "FilterGraph.addFilterChain", threw |-> ""]
  /\ accepted = [o \in OutputIds |-> <<>>]

OutputInit == ParserInit /\ RegisteredInit

SpecOutput == OutputInit /\ [][NextOutput]_vars

----------------------------------------------------------------------------
(* The claims *)

\* the lines of a chunk that a newline ends
CompleteLines(chunk) ==
  LET parts == split(chunk, "\n") IN SubSeq(parts, 1, Len(parts) - 1)

\* progress=<state>, the state not empty and without '='
IsProgressLine(line) ==
  /\ Len(line) >= 3
  /\ line[1] = "progress"
  /\ line[2] = "="
  /\ \A i \in 3..Len(line) : line[i] # "="

ProgressLinesIn(chunk) ==
  Cardinality({i \in 1..Len(CompleteLines(chunk)) : IsProgressLine(CompleteLines(chunk)[i])})

RECURSIVE ProgressLinesFed(_)
ProgressLinesFed(chunksFed) ==
  IF chunksFed = <<>> THEN 0
  ELSE ProgressLinesIn(chunksFed[1]) + ProgressLinesFed(Tail(chunksFed))

\* C1: whatever chunks were written, the number of 'update' events emitted so
\* far is the number of progress=<state> lines received so far.
C1_UpdatePerProgressLine == Len(updates) = ProgressLinesFed(fed)

\* C2: toCommand().args is the global options, each input's segment in
\* registration order, -filter_complex and the graph string exactly when the
\* command's filter graph holds at least one chain, then each output's segment
\* in registration order, also after addFilterChain calls that failed.
C2_ArgsFollowGrammar ==
  LET hasChain == cmdFilterGraph # 0 /\ Len(graphs[cmdFilterGraph]) >= 1
  IN toCommandArgs =
       Ok(GlobalTokens
          \o Flatten([k \in 1..Len(cmdInputs) |-> InputToCommandArray(cmdInputs[k])])
          \o (IF hasChain THEN <<"-filter_complex", GraphToString(cmdFilterGraph)>>
              ELSE <<>>)
          \o Flatten([k \in 1..Len(cmdOutputs) |-> OutputToCommandArray(cmdOutputs[k]).v]))

\* C3: toCommandArray() of an output is its options' tokens in option order,
\* then -map and the rendering of each stream specifier added, in the order
\* added and duplicates kept, then the url as the last token.
C3_OptionsMapsUrl ==
  \A o \in OutputIds :
    /\ OutputToCommandArray(o).ok
    /\ OutputToCommandArray(o).v =
         Flatten([k \in 1..Len(outputs[o].options) |->
                    OptionToCommandArray(outputs[o].options[k])])
         \o Flatten([k \in 1..Len(accepted[o]) |->
                      <<"-map", SpecifierToString(accepted[o][k]).v>>])
         \o <<OutputUrl(o)>>

\* C4: every stream specifier that was constructed renders without an error,
\* and so does every output that holds one, whatever was done since.
C4_NoRenderTimeFailure ==
  \A sp \in specifiers :
    /\ SpecifierToString(sp).ok
    /\ \A o \in OutputIds :
         (\E k \in 1..Len(outputs[o].streams) : outputs[o].streams[k] = sp)
           => OutputToCommandArray(o).ok

\* C5: a stream specifier exists only on an owner whose type tag is one of the
\* two recognized kinds, FFmpegInput and FilterChain.
C5_OwnerIsInputOrChain ==
  \A sp \in specifiers : sp.entityType \in {"FFmpegInput", "FilterChain"}

\* C6: the streams of an output are exactly the elements of the valid
\* addStreams lists, in order: a call whose argument is no list, or holds an
\* element that is no stream specifier, fails and leaves streams unchanged.
C6_OnlyValidListsAppended ==
  \A o \in OutputIds : outputs[o].streams = accepted[o]

\* C7: after any sequence of addInput calls, the input at index i of inputs()
\* has the label i.
C7_LabelIsPosition ==
  \A k \in 1..Len(cmdInputs) :
    /\ cmdInputs[k] \in DOMAIN inputLabel
    /\ inputLabel[cmdInputs[k]] = k - 1

\* the filter arguments an option accepts
IsFilterArgument(arg) == arg.kind \in {"FilterNode", "FilterChain", "FilterGraph"}

\* C8: an option constructed with any of the seven filter alias names and a
\* filter node, chain or graph has the name filter_complex and the flag token
\* -filter_complex.
C8_AliasNormalized ==
  \A k \in 1..Len(options) :
    (/\ options[k].given \in {"filter", "filter:v", "vf", "filter:a", "af",
                              "filter_complex", "lavfi"}
     /\ IsFilterArgument(options[k].arg))
      => /\ options[k].name = "filter_complex"
         /\ OptionToCommandArray(options[k])[1] = "-filter_complex"

\* an option given as af with a filter chain and one given as vf with a filter
\* node were constructed, both stored as filter_complex
C8_Witness ==
  /\ \E k \in 1..Len(options) :
       /\ options[k].given = "af"
       /\ options[k].arg.kind = "FilterChain"
       /\ options[k].name = "filter_complex"
  /\ \E k \in 1..Len(options) :
       /\ options[k].given = "vf"
       /\ options[k].arg.kind = "FilterNode"
       /\ options[k].name = "filter_complex"

\* C9: no option exists whose argument is a collection: an array, a Map or a
\* plain key-value object.
C9_NoCollectionArgument ==
  \A k \in 1..Len(options) : options[k].arg.kind \notin {"Array", "Map", "Object"}

\* C10: no chain is in the chains of two different graphs, and every chain in
\* the chains of a graph refers back to that graph.
C10_ChainInOneGraph ==
  \A g \in 1..Len(graphs) : \A k \in 1..Len(graphs[g]) :
    /\ chains[graphs[g][k]].filterGraph = g
    /\ \A h \in 1..Len(graphs) :
         h # g => \A j \in 1..Len(graphs[h]) : graphs[h][j] # graphs[g][k]

\* the text of a key, for the keys the claims name
OutTime == <<"out_time">>
OutTimeMs == <<"out_time_ms">>
OutTimeUs == <<"out_time_us">>

\* the chunk written by the step
ChunkWritten == fed'[Len(fed')]

\* the step writes a chunk
WritesChunk == Len(fed') = Len(fed) + 1

\* the step completes a record
CompletesRecord == Len(updates') = Len(updates) + 1

\* the record the claim commits for a pending record: out_time_ms recomputed
\* when both fields are numbers and equal, the pending record as it is
\* otherwise
CommittedFor(pending) ==
  IF /\ OutTimeMs \in DOMAIN pending
     /\ OutTimeUs \in DOMAIN pending
     /\ pending[OutTimeMs].t = "num"
     /\ pending[OutTimeUs].t = "num"
     /\ pending[OutTimeMs].v = pending[OutTimeUs].v
  THEN [pending EXCEPT ![OutTimeMs] = Num(pending[OutTimeUs].v \div 1000)]
  ELSE pending

\* C11: when a record completes, the committed out_time_ms is out_time_us / 1000
\* exactly when the pending record holds both fields and they are numerically
\* equal; in every other case (a field absent, the values different or not
\* numeric) the committed record holds the parsed values as they are.
C11_FixUpOnlyWhenNumericallyEqual ==
  [][CompletesRecord =>
       objects'[progressData'] = CommittedFor(objects[partialProgressData])]_vars

\* C12: a chunk that ends in a carriage return changes nothing: logBuffer, the
\* pending and the committed data stay as they are and no update is emitted,
\* whatever the rest of the chunk is.
C12_CarriageReturnChunkDropped ==
  [][(WritesChunk /\ ChunkWritten[Len(ChunkWritten)] = "\r") =>
       UNCHANGED <<logBuffer, objects, progressData, partialProgressData, updates>>]_vars

\* a chunk that would complete a record but for its carriage return was
\* written while fields were pending, and they still are
C12_Witness ==
  /\ Len(fed) >= 2
  /\ fed[Len(fed)] = <<"progress", "=", "end", "\r">>
  /\ objects[partialProgressData] # EmptyObject
  /\ updates = <<>>

\* the record the last update delivered, empty before the first update
LastCommitted == IF updates = <<>> THEN EmptyObject ELSE updates[Len(updates)].was

\* C13: a log entry carries the out_time of the last committed record at the
\* moment its line arrived, "0" if there is none; the pending fields never
\* count, and an entry never changes once appended.
C13_LogTimeFromCommitted ==
  [][/\ Len(logBuffer') \in {Len(logBuffer), Len(logBuffer) + 1}
     /\ SubSeq(logBuffer', 1, Len(logBuffer)) = logBuffer
     /\ Len(logBuffer') = Len(logBuffer) + 1 =>
          /\ logBuffer'[Len(logBuffer')].text = ChunkWritten
          /\ logBuffer'[Len(logBuffer')].time =
               IF OutTime \in DOMAIN LastCommitted
               THEN LastCommitted[OutTime] ELSE Str(<<"0">>)]_vars

\* a log entry stamped with the out_time of a committed record
C13_Witness ==
  \E k \in 1..Len(logBuffer) :
    /\ logBuffer[k].time = Str(<<"0", "0", ":", "0", "1">>)
    /\ LastCommitted # EmptyObject

\* the texts of the most recent n entries of the log, in arrival order
MostRecentTexts(n) ==
  LET len == Len(logBuffer)
      from == IF n >= len THEN 1 ELSE len - n + 1
  IN [k \in 1..(len - from + 1) |-> logBuffer[from + k - 1].text]

\* C14: last(n) is the texts of the most recent n log entries in arrival
\* order, all of them when there are fewer than n, and one text on its own, no
\* list, when n is the default of 1.
C14_LastReturnsMostRecent ==
  \A n \in 1..(Len(logBuffer) + 1) :
    Len(logBuffer) >= 1 =>
      last(n) = IF n = 1 THEN Single(logBuffer[Len(logBuffer)].text)
                ELSE ArrayOf(MostRecentTexts(n))

\* C15: right after a record completes the pending data is empty and the
\* committed data is exactly the fields that were pending, after the fix-up,
\* with nothing kept of the record committed before; between completions the
\* committed data does not change.
C15_CommittedReplacedWholesale ==
  [][IF CompletesRecord
     THEN /\ objects'[partialProgressData'] = EmptyObject
          /\ objects'[progressData'] = FixedUp(objects[partialProgressData])
     ELSE objects'[progressData'] = objects[progressData]]_vars

\* a record with fields was committed, then an empty one: nothing is left
C15_Witness ==
  /\ Len(updates) = 2
  /\ updates[1].was # EmptyObject
  /\ objects[progressData] = EmptyObject
  /\ objects[partialProgressData] = EmptyObject

\* key=value with a key that is not empty, holds no white space and is not
\* "progress"
IsFieldLine(line) ==
  /\ Positions(line, "=") # {}
  /\ LET p == Min(Positions(line, "="))
     IN /\ p >= 2
        /\ \A i \in 1..(p - 1) : line[i] \notin WhiteSpace
        /\ SubSeq(line, 1, p - 1) # <<"progress">>

\* a chunk of newline-terminated field lines and nothing else
IsFieldChunk(chunk) ==
  /\ chunk[Len(chunk)] = "\n"
  /\ CompleteLines(chunk) # <<>>
  /\ \A i \in 1..Len(CompleteLines(chunk)) : IsFieldLine(CompleteLines(chunk)[i])

RECURSIVE StoreFieldLines(_, _)
\* the pending data after the field lines are stored, in order
StoreFieldLines(pending, lines) ==
  IF lines = <<>> THEN pending
  ELSE LET line == lines[1]
           p == Min(Positions(line, "="))
           value == trim(SubSeq(line, p + 1, Len(line)))
       IN StoreFieldLines(
            SetKey(pending, SubSeq(line, 1, p - 1),
                   IF numRegExp(value) THEN parseFloat(value) ELSE Str(value)),
            Tail(lines))

\* C16: a newline-terminated key=value line whose key is not progress is
\* stored in the pending data under its key, as a number when the value is a
\* signed integer or decimal and as the trimmed string otherwise, over any
\* earlier value of the key; the log and the committed data stay as they are
\* and no update is emitted.
C16_FieldLineStored ==
  [][(WritesChunk /\ IsFieldChunk(ChunkWritten)) =>
       /\ objects'[partialProgressData'] =
            StoreFieldLines(objects[partialProgressData], CompleteLines(ChunkWritten))
       /\ objects'[progressData'] = objects[progressData]
       /\ UNCHANGED <<logBuffer, updates>>]_vars

\* C17: the object an update event delivered holds, whatever was written
\* since, exactly the keys and values it held when it was delivered.
C17_DeliveredRecordUnchanged ==
  \A k \in 1..Len(updates) : objects[updates[k].data] = updates[k].was

\* a record with fields was delivered and a field line was stored since
C17_Witness ==
  /\ Len(updates) = 1
  /\ updates[1].was # EmptyObject
  /\ objects[partialProgressData] # EmptyObject

====
